---- MODULE Spec2Model ----
(***************************************************************************)
(* Model of arancino-monitor: the monitor loops (monitor_main.py,          *)
(* injection_main.py, debug/debug_main.py), the Sink (utils.py), the       *)
(* ProbeManager, the InjectionManager campaign and the LoadInjector        *)
(* variants.  Time is the value of current_ms(); every sleeping thread     *)
(* holds the instant at which it runs next and the clock jumps to the      *)
(* earliest such instant.                                                  *)
(***************************************************************************)
EXTENDS Integers, Sequences, FiniteSets, TLC

(* ------------------------------ bounds -------------------------------- *)
\* largest number of ticks (N_OBS / cycles) of a run
MaxCycles == 3
\* largest scheduling delay, in ms, of the start of a process or a thread
MaxLate == 1
\* largest time, in ms, an inject_body takes beyond its wait: the block
\* allocation of MemoryStress that is under way, pool.terminate(), scheduling
MaxOverrun == 12
\* largest batch size (STORE_INTERVAL) tried
MaxStore == 3
\* merge: largest timestamp, number of injection rows, number of monitor rows
MaxTime == 2
MaxInjRows == 2
MaxMonRows == 2
\* largest number of inject() calls made on one injector
MaxActivations == 2
\* largest number of records of a declarative spec
MaxRecords == 2
\* store_observations calls on one file, and rows of one call
MaxCalls == 2
MaxBatch == 2

(* ------------------------- program constants -------------------------- *)
\* LoadInjector.py:300  "current_ms() - start_time - 20 > self.duration_ms"
DeadlockReserve == 20
\* InjectionManager.py:87  random.randint(0, 999) / 999.0
RandMax == 999
\* LoadInjector.py:229  duration_ms of a record without 'duration_ms'
DefaultDuration == 1000

(* --------------------------- input domains ---------------------------- *)
\* values of OBS_INTERVAL (-i), INJ_DURATION (-id), INJ_COOLDOWN (-ic), in ms
IntervalSet == {20}
DurationSet == {10, 20}
CooldownSet == {0, 10, 20}
\* INJ_RATE (-ir) in thousandths: 0 and 1
RateSet == {0, 1000}
\* outcomes of random.randint(0, 999) that are tried
Draws == {0, 499, 500, RandMax}
\* get_all_injectors(): the built-in list, in its order
BuiltIn == <<"MemoryStress", "CPUStress", "DiskStress", "Spin", "RedisStress">>
\* InjectionManager.injectors when the campaign starts: the built-in list
\* (available_injectors) or no injector (a spec without a recognized type)
InjectorLists == {<< >>, BuiltIn}
\* the processes: the one running __main__ and the one start_campaign launches
Procs == {"monitor", "campaign"}
\* file names: the one __main__ writes the injection log to, and another one
InjFiles == {"INJ_FILENAME", "other.csv"}
\* what the caller passes as inj_filename; "omitted" is the call of
\* injection_main.py:108, which gives no inj_filename
CallFiles == InjFiles \cup {"omitted"}
\* a thread that is not waiting for the clock
Never == -1

VARIABLES
    now,                \* current_ms()
    entry,              \* which __main__ runs
    OBS_INTERVAL, N_OBS, STORE_INTERVAL,
    INJ_DURATION, INJ_RATE, INJ_COOLDOWN,
    injectors,          \* InjectionManager.injectors: sequence of variants
    injectors_set,      \* InjectionManager.injectors is not None
    call_file,          \* the inj_filename argument of start_campaign
    probes,             \* ProbeManager.probes, the active probes
    disk_io,            \* psutil.disk_io_counters() works on this platform
    fs_fails,           \* open() of the monitor file can raise OSError in this run
    psutil_fails,       \* a psutil call of PythonProbe.read_data can raise
    redis_up,           \* a Redis server answers on this machine
    process_name,       \* ProcessHangInjection.process_name is not None
    target_alive,       \* pkill finds a process of that name
    \* ---- the process running __main__
    main_pc, mon_wake, obs_index, obs_data, start_time, mon_file,
    diag,               \* the "ERROR: monitor time ..." lines printed: for each,
                        \* the number of samples read when it was printed
    appends,            \* the number of rows of every store_observations call
                        \* issued inside the loop
    \* ---- per process copies of the InjectionManager and its injectors
    campaign_running,   \* [Procs -> BOOLEAN]
    injections,         \* [Procs -> [set, log]]   self.injections (None = ~set)
    available_inj,      \* [Procs -> 0..n]         0 is None
    completed_flag,     \* [Procs -> [1..n -> BOOLEAN]]
    injected_interval,  \* [Procs -> [1..n -> Seq([start, end])]]
    \* ---- the campaign process
    camp_pc, camp_wake, cycle_id, start_ms, inj_timer,
    inj_pc, inj_wake, inj_start,     \* the inject_body thread of each injector
    redis_keys,         \* number of keys 'fake_tag*' in the Redis store
    inj_files,          \* [InjFiles -> [exists, rows, writers]]
    \* ---- history, for stating properties
    n_started,          \* number of inject() calls of the campaign
    history,            \* the samples read_probes_data returned, in order
    collected,          \* what collect_injections returned to __main__
    \* ---- merge_data_injections.py
    mg_pc,              \* position in __main__ of merge_data_injections.py
    INJECTIONS_FILE,    \* the rows of the injection log, in file order
    MONITOR_FILE,       \* the timestamp cell of every row of the monitor file
    mg_injections,      \* injections, the list built from the injection log
    inj_index, mg_row,  \* inj_index, and the number of monitor rows read
    mg_out,             \* the rows written to OUTPUT_FILE: timestamp and label
    \* ---- InjectionManager.fromJSON
    js_pc,              \* position in fromJSON
    json_object,        \* the 'type' of every record of the spec ("" = no type)
    json_injectors,     \* json_injectors, the list being built
    js_skipped,         \* the number of records read that gave no injector
    json_duration,      \* the 'duration_ms' of every record: [has, val]
    js_built,           \* the injectors LoadInjector.fromJSON has returned
    js_injectors,       \* self.injectors after the call: [set, list]
    \* ---- history, for stating properties
    fc_call             \* the call of force_close_injections made, if any

arg_vars == <<entry, OBS_INTERVAL, N_OBS, STORE_INTERVAL, INJ_DURATION, INJ_RATE,
              INJ_COOLDOWN, injectors, injectors_set, call_file, disk_io, fs_fails,
              psutil_fails, redis_up, process_name, target_alive>>
cfg_vars == <<arg_vars, probes>>
mon_vars == <<main_pc, mon_wake, obs_index, obs_data, start_time, mon_file,
              diag, appends>>
obj_vars == <<campaign_running, injections, available_inj, completed_flag,
              injected_interval>>
camp_vars == <<camp_pc, camp_wake, cycle_id, start_ms, inj_timer>>
thr_vars == <<inj_pc, inj_wake, inj_start, redis_keys>>
merge_vars == <<mg_pc, INJECTIONS_FILE, MONITOR_FILE, mg_injections, inj_index,
                mg_row, mg_out>>
json_vars == <<js_pc, json_object, json_injectors, js_skipped, json_duration,
               js_built, js_injectors>>
aux_vars == <<merge_vars, json_vars, fc_call>>
\* the variables of a monitor run and of its campaign
run_vars == <<now, cfg_vars, mon_vars, obj_vars, camp_vars, thr_vars, inj_files,
              n_started, history, collected>>
vars == <<run_vars, aux_vars>>

(* ------------------------------ helpers ------------------------------- *)
Late == 0..MaxLate

Overruns == {0, MaxOverrun}

SetMin(S) == CHOOSE x \in S : \A y \in S : x <= y

Max(a, b) == IF a >= b THEN a ELSE b

NInj == Len(injectors)

RECURSIVE Concat(_, _)
\* the concatenation of q[1], ..., q[n]
Concat(q, n) == IF n = 0 THEN << >> ELSE Concat(q, n - 1) \o q[n]

(* ------------------------- LoadInjector ------------------------------- *)
\* LoadInjector.is_injector_running of process p's copy of injector i
is_injector_running(p, i) == ~completed_flag[p][i]

\* get_name: "[tag]<Variant>(d<duration_ms>...)"; the tag is empty
get_name(i) == [variant |-> injectors[i], d |-> INJ_DURATION]

\* time.sleep(t) lasts t seconds: that time in ms
SleepMs(t) == t * 1000

\* the variants of LoadInjector
Variants ==
    {"Spin", "DiskStress", "CPUStress", "MemoryStress", "Deadlock", "HTTPRead",
     "RedisStress", "RedisMemory", "ProcessHang"}

\* earliest instant, relative to start_time, at which inject_body of the
\* variant leaves its wait
\*   Spin, MemoryStress: loop until current_ms() - start_time > duration_ms
\*   Deadlock: loop until current_ms() - start_time - 20 > duration_ms
\*   CPUStress, DiskStress, RedisStress: sleep = Event(); sleep.set();
\*       sleep.wait(...) returns at once, the event being set
\*   RedisMemory: loop until current_ms() - start_time > duration_ms
\*   HTTPRead: time.sleep((duration_ms - current_ms() + start_time) / 1000.0)
\*   ProcessHang: time.sleep(duration_ms - (current_ms() - start_time)), and
\*       time.sleep takes seconds
MinRun(variant) ==
    CASE variant \in {"Spin", "MemoryStress", "RedisMemory"} -> INJ_DURATION + 1
      [] variant = "Deadlock" -> INJ_DURATION + DeadlockReserve + 1
      [] variant \in {"CPUStress", "DiskStress", "RedisStress"} -> 0
      [] variant = "HTTPRead" -> INJ_DURATION
      [] variant = "ProcessHang" -> SleepMs(INJ_DURATION)

\* the exception, if any, that ends inject_body before its wait, the setup
\* having taken e ms
\*   RedisMemory: redis_obj.set(...) raises ConnectionError without a server
\*   ProcessHang: check_output(['pkill', '-STOP', name]) raises
\*       CalledProcessError when no process has that name
\*   HTTPRead: time.sleep of a negative time raises ValueError
BodyRaises(variant, e) ==
    \/ variant = "RedisMemory" /\ ~redis_up
    \/ variant = "ProcessHang" /\ process_name /\ ~target_alive
    \/ variant = "HTTPRead" /\ e > INJ_DURATION

\* inject_body appends an interval when it gets to its end
Records(variant) == variant = "ProcessHang" => process_name

(* ------------------------- InjectionManager --------------------------- *)
\* the gate of campaign_body, for the draw r of random.randint(0, 999):
\* (r / 999.0) <= error_rate, with error_rate = INJ_RATE / 1000
RateGate(r) == r * 1000 <= INJ_RATE * RandMax

\* a fit test that would count the current cycle as time left
FitGateNoReserve == (N_OBS - cycle_id) * OBS_INTERVAL > INJ_DURATION

\* (cycles - cycle_id - 1) * cycle_ms > self.inj_duration
FitGate == (N_OBS - cycle_id - 1) * OBS_INTERVAL > INJ_DURATION

\* self.injectors is not None and len(self.injectors) > 0
has_injectors == injectors_set /\ NInj > 0

\* collect_injections in process p raises: `for inj in self.injectors` with
\* self.injectors None is a TypeError
CollectRaises(p) == ~injections[p].set /\ ~injectors_set

\* the rows collect_injections builds from process p's injectors
TagRows(p, i) ==
    [k \in 1..Len(injected_interval[p][i]) |->
        [start |-> injected_interval[p][i][k].start,
         end |-> injected_interval[p][i][k].end,
         inj_name |-> get_name(i)]]

MergedLog(p) == Concat([i \in 1..NInj |-> TagRows(p, i)], NInj)

\* collect_injections, past its wait loop: self.injections after the call
collect_injections(p) ==
    IF injections[p].set THEN injections[p]
    ELSE [set |-> TRUE, log |-> MergedLog(p)]

\* open(name, 'w') ... writerow(keys) ... writerow(row) by process p
WriteLog(name, log, p) ==
    [inj_files EXCEPT ![name] = [exists |-> TRUE, rows |-> log,
                                 writers |-> @.writers \cup {p}]]

(* --------------------------- ProbeManager ----------------------------- *)
\* get_all_probes(): the catalogue, in its order
AllProbes == <<"VMInfoProbe", "IOStatProbe", "PythonProbe", "MemInfoProbe">>

\* what read_data() of a probe can return: None, or a dict whose keys are
\* listed in insertion order (one representative key per group of keys)
\*   ScriptProbe.read_data: None when the command or the parsing raises
\*   IOStatProbe.to_dict:   {} when no line starts with 'avg-cpu'
\*   PythonProbe.read_data: always a dict; the disk_io group is left out
\*                          on a platform where psutil.disk_io_counters()
\*                          raises
ReadData(probe) ==
    CASE probe = "VMInfoProbe" ->
            {[none |-> TRUE, keys |-> << >>],
             [none |-> FALSE, keys |-> <<"vmstat.nr_free_pages">>]}
      [] probe = "IOStatProbe" ->
            {[none |-> TRUE, keys |-> << >>],
             [none |-> FALSE, keys |-> << >>],
             [none |-> FALSE, keys |-> <<"iostat.user">>]}
      [] probe = "PythonProbe" ->
            {[none |-> FALSE,
              keys |-> IF disk_io THEN <<"cpu_times.user", "disk_io.read_count">>
                       ELSE <<"cpu_times.user">>]}
      [] probe = "MemInfoProbe" ->
            {[none |-> TRUE, keys |-> << >>],
             [none |-> FALSE, keys |-> <<"meminfo.MemTotal">>]}

\* available_probes(): the probes of the catalogue whose can_read() holds, in
\* catalogue order; PythonProbe.can_read() is always True
ProbeLists ==
    {<<"PythonProbe">>, <<"IOStatProbe", "PythonProbe">>,
     <<"PythonProbe", "MemInfoProbe">>}

\* the results of one read_data() call on every active probe
ReadAll == {f \in [1..Len(probes) -> UNION {ReadData(AllProbes[k]) : k \in 1..Len(AllProbes)}] :
               \A k \in 1..Len(probes) : f[k] \in ReadData(probes[k])}

\* a read that would drop from the list the probes that returned None
DropNone(res) ==
    Concat([k \in 1..Len(probes) |->
               IF res[k].none THEN << >> ELSE <<probes[k]>>], Len(probes))

\* self.probes after read_probes_data(), which iterates over the list and
\* assigns nothing to it
AfterRead(res) == probes

\* read_probes_data(): {'timestamp': current_ms()} updated with every p_data
\* that is not None.  A sample is its timestamp and its keys in dict order.
read_probes_data(t, res) ==
    [timestamp |-> t,
     keys |-> <<"timestamp">> \o
              Concat([k \in 1..Len(probes) |->
                         IF res[k].none THEN << >> ELSE res[k].keys], Len(probes))]

(* ------------------------------- Sink --------------------------------- *)
\* A file is the sequence of its lines; << >> is a file that does not exist.
\* A header line holds key names; a data line holds one value per key of its
\* sample, each value written here as the key it belongs to, and ts is the
\* value of the timestamp field.
HeaderLine(obs) == [hdr |-> TRUE, ts |-> 0, cells |-> obs.keys]

DataLine(obs) == [hdr |-> FALSE, ts |-> obs.timestamp, cells |-> obs.keys]

\* a writer that would put the header before the rows of every call
StoreHeaderAlways(file, data) ==
    file \o <<HeaderLine(data[1])>> \o [k \in 1..Len(data) |-> DataLine(data[k])]

\* store_observations(filename, obs_data): the content of the file afterwards
store_observations(file, data) ==
    (IF file = << >> THEN <<HeaderLine(data[1])>> ELSE file)
        \o [k \in 1..Len(data) |-> DataLine(data[k])]

\* len(obs_data) % STORE_INTERVAL == STORE_INTERVAL - 1
BatchFull(data) == Len(data) % STORE_INTERVAL = STORE_INTERVAL - 1

\* read_time = current_ms() - start_it: the probes answer at once, or take a
\* whole interval
ReadTimes == {0, OBS_INTERVAL}

(* ------------------------------- Init --------------------------------- *)
\* the state after the constructors, whatever the entry point
InitState ==
    /\ now = 0
    /\ main_pc = "init" /\ obs_index = 0 /\ obs_data = << >>
    /\ mon_wake = IF entry = "none" THEN Never ELSE 0
    /\ start_time = 0 /\ mon_file = << >>
    /\ diag = << >> /\ appends = << >>
    /\ campaign_running = [p \in Procs |-> FALSE]
    /\ injections = [p \in Procs |-> [set |-> FALSE, log |-> << >>]]
    /\ available_inj = [p \in Procs |-> 0]
    /\ completed_flag = [p \in Procs |-> [i \in 1..NInj |-> TRUE]]
    /\ injected_interval = [p \in Procs |-> [i \in 1..NInj |-> << >>]]
    /\ camp_pc = "none" /\ camp_wake = Never /\ cycle_id = 0 /\ start_ms = 0
    /\ inj_timer = 0
    /\ inj_pc = [i \in 1..NInj |-> "idle"]
    /\ inj_wake = [i \in 1..NInj |-> Never]
    /\ inj_start = [i \in 1..NInj |-> 0]
    /\ redis_keys = 0
    /\ inj_files = [f \in InjFiles |-> [exists |-> FALSE, rows |-> << >>, writers |-> {}]]
    /\ fc_call = [called |-> FALSE, at |-> 0, active |-> {}, raised |-> FALSE]
    /\ n_started = 0
    /\ history = << >>
    /\ collected = [set |-> FALSE, log |-> << >>]

\* merge_data_injections.py is not running, fromJSON is not called
MergeOff ==
    /\ js_pc = "off" /\ json_object = << >> /\ json_injectors = << >>
    /\ js_skipped = 0 /\ json_duration = << >> /\ js_built = << >>
    /\ js_injectors = [set |-> FALSE, list |-> << >>]
    /\ mg_pc = "off"
    /\ INJECTIONS_FILE = << >> /\ MONITOR_FILE = << >>
    /\ mg_injections = << >> /\ inj_index = 0 /\ mg_row = 0 /\ mg_out = << >>

\* injection_main.py with its options
Init ==
    /\ entry = "injection_main"
    /\ OBS_INTERVAL \in IntervalSet
    /\ N_OBS \in 1..MaxCycles
    /\ STORE_INTERVAL = MaxStore
    /\ INJ_DURATION \in DurationSet
    /\ INJ_RATE \in RateSet
    /\ INJ_COOLDOWN \in CooldownSet
    /\ injectors \in InjectorLists
    /\ injectors_set \in BOOLEAN
    /\ ~injectors_set => injectors = << >>
    /\ call_file \in CallFiles
    /\ probes = <<"PythonProbe">>
    /\ disk_io = TRUE
    /\ fs_fails = FALSE
    /\ psutil_fails = FALSE
    /\ redis_up = TRUE /\ process_name = TRUE /\ target_alive = TRUE
    /\ InitState
    /\ MergeOff

\* monitor_main.py and debug/debug_main.py with their options
InitMon ==
    /\ entry \in {"monitor_main", "debug_main"}
    /\ OBS_INTERVAL \in IntervalSet
    /\ N_OBS \in 1..MaxCycles
    /\ STORE_INTERVAL \in 1..MaxStore
    /\ INJ_DURATION = 20 /\ INJ_RATE = 0 /\ INJ_COOLDOWN = 0
    /\ injectors = << >>
    /\ injectors_set = TRUE
    /\ call_file = "omitted"
    /\ probes \in ProbeLists
    /\ disk_io \in BOOLEAN
    /\ fs_fails \in BOOLEAN
    /\ psutil_fails \in BOOLEAN
    /\ redis_up = TRUE /\ process_name = TRUE /\ target_alive = TRUE
    /\ InitState
    /\ MergeOff

(* ------------------------- the monitor loops -------------------------- *)
\* monitor_main.py / debug_main.py up to the loop
MonitorStart ==
    /\ main_pc = "init"
    /\ entry \in {"monitor_main", "debug_main"}
    /\ main_pc' = IF entry = "debug_main" THEN "dtick" ELSE "tick"
    /\ start_time' = now
    /\ mon_wake' = now
    /\ UNCHANGED <<aux_vars, now, cfg_vars, obs_index, obs_data, mon_file, diag, appends,
                   obj_vars, camp_vars, thr_vars, inj_files, n_started, history,
                   collected>>

\* injection_main.py:103-113: im.start_campaign(...), then the loop.  The
\* campaign process gets a copy of the InjectionManager of the caller.
\* A call without inj_filename raises TypeError and ends __main__.
StartCampaign ==
    /\ main_pc = "init"
    /\ entry = "injection_main"
    /\ IF call_file = "omitted"
       THEN /\ main_pc' = "crashed"
            /\ mon_wake' = Never
            /\ UNCHANGED <<start_time, obj_vars, camp_vars>>
       ELSE /\ main_pc' = "tick"
            /\ mon_wake' = now
            /\ start_time' = now
            /\ campaign_running' = [campaign_running EXCEPT !["campaign"] = campaign_running["monitor"]]
            /\ injections' = [injections EXCEPT !["campaign"] = injections["monitor"]]
            /\ available_inj' = [available_inj EXCEPT !["campaign"] = available_inj["monitor"]]
            /\ completed_flag' = [completed_flag EXCEPT !["campaign"] = completed_flag["monitor"]]
            /\ injected_interval' = [injected_interval EXCEPT !["campaign"] = injected_interval["monitor"]]
            /\ camp_pc' = "begin"
            /\ \E l \in Late : camp_wake' = now + l
            /\ UNCHANGED <<cycle_id, start_ms, inj_timer>>
    /\ UNCHANGED <<aux_vars, now, cfg_vars, obs_index, obs_data, mon_file, diag, appends,
                   thr_vars, inj_files, n_started, history, collected>>

\* the exceptions a step of the loop can meet in this run: none, one raised
\* by psutil inside PythonProbe.read_data, or OSError raised by open() inside
\* store_observations.  Neither loop has a try statement.
Faults ==
    {"none"} \cup (IF psutil_fails THEN {"read"} ELSE {})
             \cup (IF fs_fails THEN {"store"} ELSE {})

\* a strict loop that would not break after the ERROR line
StrictAfterNoBreak(read_time) ==
    IF obs_index + 1 < N_OBS THEN "tick" ELSE "flush"

\* monitor_main.py:79-83: after a tick that took read_time, the loop sleeps
\* and goes on, or prints the ERROR line and breaks
StrictAfter(read_time) ==
    IF read_time < OBS_INTERVAL
    THEN IF obs_index + 1 < N_OBS THEN "tick" ELSE "flush"
    ELSE "flush"

\* debug_main.py:39-42: the loop goes on in both cases
LenientAfter(read_time) == "dtick"

\* the instant of the next iteration: time.sleep((OBS_INTERVAL - read_time)/1000)
\* or none
NextIteration(read_time) ==
    IF read_time < OBS_INTERVAL THEN now + OBS_INTERVAL ELSE now + read_time

\* the ERROR line of a tick that took read_time
Diagnose(read_time) ==
    IF read_time < OBS_INTERVAL THEN diag ELSE Append(diag, Len(history) + 1)

\* one iteration of the loop of monitor_main.py:70-83 and
\* injection_main.py:115-128
MonitorTick ==
    /\ main_pc = "tick"
    /\ now = mon_wake
    /\ \E res \in ReadAll, read_time \in ReadTimes, fault \in Faults :
          IF fault = "read"
          THEN /\ main_pc' = "read_raised"
               /\ mon_wake' = Never
               /\ UNCHANGED <<obs_index, obs_data, mon_file, diag, appends, history,
                              probes>>
          ELSE LET buf == Append(obs_data, read_probes_data(now, res))
               IN /\ history' = Append(history, read_probes_data(now, res))
                  /\ probes' = AfterRead(res)
                  /\ IF BatchFull(buf) /\ fault = "store"
                     THEN /\ obs_data' = buf
                          /\ main_pc' = "store_raised"
                          /\ mon_wake' = Never
                          /\ UNCHANGED <<obs_index, mon_file, diag, appends>>
                     ELSE /\ IF BatchFull(buf)
                             THEN /\ mon_file' = store_observations(mon_file, buf)
                                  /\ appends' = Append(appends, Len(buf))
                                  /\ obs_data' = << >>
                             ELSE /\ UNCHANGED <<mon_file, appends>>
                                  /\ obs_data' = buf
                          /\ obs_index' = obs_index + 1
                          /\ diag' = Diagnose(read_time)
                          /\ mon_wake' = NextIteration(read_time)
                          /\ main_pc' = StrictAfter(read_time)
    /\ UNCHANGED <<aux_vars, now, arg_vars, start_time, obj_vars, camp_vars, thr_vars,
                   inj_files, n_started, collected>>

\* monitor_main.py:85-88 and injection_main.py:130-133
MonitorFlush ==
    /\ main_pc = "flush"
    /\ now = mon_wake
    /\ \E fault \in Faults :
          IF Len(obs_data) > 0 /\ fault = "store"
          THEN /\ main_pc' = "store_raised"
               /\ mon_wake' = Never
               /\ UNCHANGED <<obs_data, mon_file>>
          ELSE /\ IF Len(obs_data) > 0
                  THEN mon_file' = store_observations(mon_file, obs_data)
                  ELSE mon_file' = mon_file
               /\ obs_data' = << >>
               /\ IF entry = "injection_main"
                  THEN main_pc' = "collect" /\ mon_wake' = now
                  ELSE main_pc' = "done" /\ mon_wake' = Never
    /\ UNCHANGED <<aux_vars, now, cfg_vars, obs_index, start_time, diag, appends, obj_vars,
                   camp_vars, thr_vars, inj_files, n_started, history, collected>>

\* one iteration of the loop of debug_main.py:30-42
DebugTick ==
    /\ main_pc = "dtick"
    /\ now = mon_wake
    /\ IF N_OBS > 0 /\ now > start_time + N_OBS * OBS_INTERVAL
       THEN /\ main_pc' = "dflush"
            /\ UNCHANGED <<mon_wake, obs_index, obs_data, mon_file, diag, appends,
                           history, probes>>
       ELSE \E res \in ReadAll, read_time \in ReadTimes, fault \in Faults :
               IF fault = "read"
               THEN /\ main_pc' = "read_raised"
                    /\ mon_wake' = Never
                    /\ UNCHANGED <<obs_index, obs_data, mon_file, diag, appends,
                                   history, probes>>
               ELSE LET buf == Append(obs_data, read_probes_data(now, res))
                    IN /\ obs_data' = buf
                       /\ probes' = AfterRead(res)
                       /\ history' = Append(history, read_probes_data(now, res))
                       /\ IF BatchFull(buf) /\ fault = "store"
                          THEN /\ main_pc' = "store_raised"
                               /\ mon_wake' = Never
                               /\ UNCHANGED <<obs_index, mon_file, diag, appends>>
                          ELSE /\ IF BatchFull(buf)
                                  THEN /\ mon_file' = store_observations(mon_file, buf)
                                       /\ appends' = Append(appends, Len(buf))
                                  ELSE UNCHANGED <<mon_file, appends>>
                               /\ obs_index' = obs_index + 1
                               /\ diag' = Diagnose(read_time)
                               /\ mon_wake' = NextIteration(read_time)
                               /\ main_pc' = LenientAfter(read_time)
    /\ UNCHANGED <<aux_vars, now, arg_vars, start_time, obj_vars, camp_vars, thr_vars,
                   inj_files, n_started, collected>>

\* debug_main.py:44-46
DebugFlush ==
    /\ main_pc = "dflush"
    /\ now = mon_wake
    /\ \E fault \in Faults :
          IF Len(obs_data) > 0 /\ fault = "store"
          THEN /\ main_pc' = "store_raised"
               /\ mon_file' = mon_file
          ELSE /\ main_pc' = "done"
               /\ IF Len(obs_data) > 0
                  THEN mon_file' = store_observations(mon_file, obs_data)
                  ELSE mon_file' = mon_file
    /\ mon_wake' = Never
    /\ UNCHANGED <<aux_vars, now, cfg_vars, obs_index, obs_data, start_time, diag, appends,
                   obj_vars, camp_vars, thr_vars, inj_files, n_started, history,
                   collected>>

\* injection_main.py:135-142: collect_injections in the process of __main__,
\* then the injection log is written to INJ_FILENAME
MainCollect ==
    /\ main_pc = "collect"
    /\ ~campaign_running["monitor"]
    /\ LET res == collect_injections("monitor")
       IN /\ injections' = [injections EXCEPT !["monitor"] = res]
          /\ IF CollectRaises("monitor")
             THEN /\ main_pc' = "crashed"
                  /\ UNCHANGED <<collected, inj_files>>
             ELSE /\ main_pc' = "done"
                  /\ collected' = res
                  /\ inj_files' = WriteLog("INJ_FILENAME", res.log, "monitor")
    /\ mon_wake' = Never
    /\ UNCHANGED <<aux_vars, now, cfg_vars, obs_index, obs_data, start_time, mon_file,
                   diag, appends, campaign_running, available_inj, completed_flag,
                   injected_interval, camp_vars, thr_vars, n_started, history>>

(* --------------------- the campaign process --------------------------- *)
\* campaign_body, InjectionManager.py:74-78
CampaignBegin ==
    /\ camp_pc = "begin"
    /\ now = camp_wake
    /\ campaign_running' = [campaign_running EXCEPT !["campaign"] = TRUE]
    /\ available_inj' = [available_inj EXCEPT !["campaign"] = 0]
    /\ inj_timer' = 0
    /\ cycle_id' = 0
    /\ camp_pc' = IF has_injectors /\ N_OBS > 0 THEN "tick" ELSE "finish"
    /\ UNCHANGED <<aux_vars, now, cfg_vars, mon_vars, injections, completed_flag,
                   injected_interval, camp_wake, start_ms, thr_vars, inj_files,
                   n_started, history, collected>>

\* the sleep of InjectionManager.py:98-100, begun at instant t of a cycle that
\* started at s: the instant the thread runs again (time.sleep is taken to
\* return at its deadline)
SleepUntil(s, t) == Max(t, s + OBS_INTERVAL)

\* campaign_body, InjectionManager.py:81-87 and, when the gate is closed,
\* :98-100
CampaignTick ==
    /\ camp_pc = "tick"
    /\ now = camp_wake
    /\ start_ms' = now
    /\ \E r \in Draws :
          IF /\ available_inj["campaign"] = 0
             /\ inj_timer = 0
             /\ FitGate
             /\ RateGate(r)
          THEN /\ camp_pc' = "select"
               /\ camp_wake' = Never
          ELSE /\ camp_pc' = "sleep"
               /\ camp_wake' = SleepUntil(now, now)
    /\ UNCHANGED <<aux_vars, now, cfg_vars, mon_vars, obj_vars, cycle_id, inj_timer,
                   thr_vars, inj_files, n_started, history, collected>>

\* campaign_body, InjectionManager.py:89-100: the selection loop ends with an
\* injector that is not running; its inject() is started in a thread
CampaignSelect ==
    /\ camp_pc = "select"
    /\ \E i \in 1..NInj :
          /\ ~is_injector_running("campaign", i)
          /\ inj_pc[i] = "idle"
          /\ available_inj' = [available_inj EXCEPT !["campaign"] = i]
          /\ inj_pc' = [inj_pc EXCEPT ![i] = "launched"]
          /\ \E l \in Late : inj_wake' = [inj_wake EXCEPT ![i] = now + l]
    /\ inj_timer' = INJ_DURATION + INJ_COOLDOWN
    /\ n_started' = n_started + 1
    /\ camp_pc' = "sleep"
    /\ camp_wake' = SleepUntil(start_ms, now)
    /\ UNCHANGED <<aux_vars, now, cfg_vars, mon_vars, campaign_running, injections,
                   completed_flag, injected_interval, cycle_id, start_ms,
                   inj_start, redis_keys, inj_files, history, collected>>

\* inj_timer - cycle_ms if inj_timer > 0 else 0
NextTimer == IF inj_timer > 0 THEN inj_timer - OBS_INTERVAL ELSE 0

\* campaign_body, InjectionManager.py:101-104, and the next iteration
CampaignWake ==
    /\ camp_pc = "sleep"
    /\ now = camp_wake
    /\ inj_timer' = NextTimer
    /\ available_inj' = [available_inj EXCEPT !["campaign"] =
                            IF NextTimer < INJ_COOLDOWN THEN 0 ELSE @]
    /\ cycle_id' = cycle_id + 1
    /\ camp_pc' = IF cycle_id + 1 < N_OBS THEN "tick" ELSE "finish"
    /\ UNCHANGED <<aux_vars, now, cfg_vars, mon_vars, campaign_running, injections,
                   completed_flag, injected_interval, camp_wake, start_ms,
                   thr_vars, inj_files, n_started, history, collected>>

\* campaign_body, InjectionManager.py:109-116
CampaignFinish ==
    /\ camp_pc = "finish"
    /\ now = camp_wake
    /\ campaign_running' = [campaign_running EXCEPT !["campaign"] = FALSE]
    /\ LET res == collect_injections("campaign")
       IN /\ injections' = [injections EXCEPT !["campaign"] = res]
          /\ IF CollectRaises("campaign")
             THEN /\ camp_pc' = "raised"
                  /\ UNCHANGED inj_files
             ELSE /\ camp_pc' = "done"
                  /\ inj_files' = WriteLog(call_file, res.log, "campaign")
    /\ camp_wake' = Never
    /\ UNCHANGED <<aux_vars, now, cfg_vars, mon_vars, available_inj, completed_flag,
                   injected_interval, cycle_id, start_ms, inj_timer, thr_vars,
                   n_started, history, collected>>

(* ----------------------- the injector threads ------------------------- *)
\* the number of passes of the loop of RedisMemoryInjection.inject_body
SetCalls == {1, 2}

\* the keys of the store after n passes of that loop, each of which sets
\* the key 'fake_tag_<i>' for the next i, counted from 0 in every activation
AfterSets(variant, n) ==
    IF variant = "RedisMemory" THEN Max(redis_keys, n) ELSE redis_keys

\* an end of inject_body that would leave the keys in the store
AfterNoDelete(variant) == redis_keys

\* redis_obj.delete(*redis_obj.keys('fake_tag*'))
AfterDelete(variant) ==
    IF variant = "RedisMemory" THEN 0 ELSE redis_keys

\* inject_body up to its wait (LoadInjector.py:111-112, 293-294, 515-520)
InjectBodyBegin(i) ==
    /\ inj_pc[i] = "launched"
    /\ now = inj_wake[i]
    /\ completed_flag' = [completed_flag EXCEPT !["campaign"][i] = FALSE]
    /\ inj_start' = [inj_start EXCEPT ![i] = now]
    /\ \E o \in Overruns :
          IF BodyRaises(injectors[i], o)
          THEN /\ inj_pc' = [inj_pc EXCEPT ![i] = "raised"]
               /\ inj_wake' = [inj_wake EXCEPT ![i] = Never]
               /\ UNCHANGED redis_keys
          ELSE /\ inj_pc' = [inj_pc EXCEPT ![i] = "running"]
               /\ inj_wake' = [inj_wake EXCEPT ![i] = now + MinRun(injectors[i]) + o]
               /\ \E n \in SetCalls : redis_keys' = AfterSets(injectors[i], n)
    /\ UNCHANGED <<aux_vars, now, cfg_vars, mon_vars, campaign_running, injections,
                   available_inj, injected_interval, camp_vars, inj_files,
                   n_started, history, collected>>

\* an end of inject_body that would clear the flag before it appends
FlagFirst == <<"flag", "append">>

\* the last statements of every inject_body, in their order:
\* self.injected_interval.append(...) and then self.completed_flag = True
\* (LoadInjector.py:117-118, 158-159, 213-214, 258-259, 305-306, 410-411,
\* 473-474, 524-526, 575-578)
EndOrder == <<"append", "flag">>

\* the effect of one of these statements on the injector i
EndStatement(i, what) ==
    /\ injected_interval' =
          IF what = "append" /\ Records(injectors[i])
          THEN [injected_interval EXCEPT !["campaign"][i] =
                   Append(@, [start |-> inj_start[i], end |-> now])]
          ELSE injected_interval
    /\ completed_flag' =
          IF what = "flag"
          THEN [completed_flag EXCEPT !["campaign"][i] = TRUE]
          ELSE completed_flag

\* inject_body after its wait: the first of its last statements
InjectBodyEnd(i) ==
    /\ inj_pc[i] = "running"
    /\ now = inj_wake[i]
    /\ EndStatement(i, EndOrder[1])
    /\ inj_pc' = [inj_pc EXCEPT ![i] = "closing"]
    /\ UNCHANGED <<aux_vars, now, cfg_vars, mon_vars, campaign_running, injections,
                   available_inj, camp_vars, inj_wake, inj_start, redis_keys,
                   inj_files, n_started, history, collected>>

\* inject_body, the second of its last statements (for RedisMemoryInjection
\* the keys are deleted between the two, LoadInjector.py:525)
InjectBodyClose(i) ==
    /\ inj_pc[i] = "closing"
    /\ now = inj_wake[i]
    /\ redis_keys' = AfterDelete(injectors[i])
    /\ EndStatement(i, EndOrder[2])
    /\ inj_pc' = [inj_pc EXCEPT ![i] = "idle"]
    /\ inj_wake' = [inj_wake EXCEPT ![i] = Never]
    /\ UNCHANGED <<aux_vars, now, cfg_vars, mon_vars, campaign_running, injections,
                   available_inj, camp_vars, inj_start, inj_files, n_started,
                   history, collected>>

InjectBegin == \E i \in 1..NInj : InjectBodyBegin(i)

\* LoadInjector.inject(), called on an injector whose body is not under way
InjectCall ==
    /\ entry = "none"
    /\ n_started < MaxActivations
    /\ \E i \in 1..NInj :
          /\ inj_pc[i] \in {"idle", "raised"}
          /\ inj_pc' = [inj_pc EXCEPT ![i] = "launched"]
          /\ \E l \in Late : inj_wake' = [inj_wake EXCEPT ![i] = now + l]
    /\ n_started' = n_started + 1
    /\ UNCHANGED <<aux_vars, now, cfg_vars, mon_vars, obj_vars, camp_vars,
                   inj_start, redis_keys, inj_files, history, collected>>

InjectEnd == \E i \in 1..NInj : InjectBodyEnd(i)

InjectClose == \E i \in 1..NInj : InjectBodyClose(i)

(* --------------------- merge_data_injections.py ----------------------- *)
\* the sequences over S of length at most n
SeqUpTo(S, n) == UNION {[1..k -> S] : k \in 0..n}

\* a row of the injection log: the k-th row of the file is given the name k,
\* so that the label of a row tells which interval was chosen
InjRows(k) ==
    {[start_time |-> a, end_time |-> b, tag |-> k] : a \in 0..MaxTime, b \in 0..MaxTime}

\* the injection logs read: rows with start <= end, in any order
InjectionLogs ==
    {q \in SeqUpTo(UNION {InjRows(k) : k \in 1..MaxInjRows}, MaxInjRows) :
        \A k \in 1..Len(q) : q[k].tag = k /\ q[k].start_time <= q[k].end_time}

\* the timestamp cell of a monitor row: the text of a number, for which
\* str.isnumeric() holds, or another text ("-1", "1.5", "")
TimeCells ==
    {[numeric |-> TRUE, val |-> t] : t \in 0..MaxTime}
        \cup {[numeric |-> FALSE, val |-> 0]}

RECURSIVE InsertByStart(_, _)
\* q, sorted by start_time, with x inserted after the rows that do not start
\* later than x
InsertByStart(q, x) ==
    IF q = << >> THEN <<x>>
    ELSE IF Head(q).start_time <= x.start_time
         THEN <<Head(q)>> \o InsertByStart(Tail(q), x)
         ELSE <<x>> \o q

RECURSIVE SortedByStart(_, _)
\* sorted(injections, key=lambda d: d['start_time']) of the first n rows:
\* a stable sort
SortedByStart(q, n) ==
    IF n = 0 THEN << >> ELSE InsertByStart(SortedByStart(q, n - 1), q[n])

RECURSIVE Sweep(_, _)
\* the while loop of lines 109-111, inj_index counted from 1
Sweep(idx, r_time) ==
    IF idx < Len(mg_injections) /\ r_time > mg_injections[idx].end_time
    THEN Sweep(idx + 1, r_time)
    ELSE idx

\* the test of line 112 with the upper bound exclusive
InsideHalfOpen(inj, r_time) == inj.start_time <= r_time /\ r_time < inj.end_time

\* line 112: start_time <= r_time <= end_time
Inside(inj, r_time) == inj.start_time <= r_time /\ r_time <= inj.end_time

\* lines 57-68: the injection log is read and sorted
MergeRead ==
    /\ mg_pc = "read"
    /\ mg_injections' = SortedByStart(INJECTIONS_FILE, Len(INJECTIONS_FILE))
    /\ inj_index' = 1
    /\ mg_pc' = "rows"
    /\ UNCHANGED <<run_vars, fc_call, json_vars, INJECTIONS_FILE, MONITOR_FILE, mg_row, mg_out>>

\* lines 102-115: one row of the monitor file
MergeRow ==
    /\ mg_pc = "rows"
    /\ mg_row < Len(MONITOR_FILE)
    /\ LET cell == MONITOR_FILE[mg_row + 1]
           idx == IF inj_index <= Len(mg_injections)
                  THEN Sweep(inj_index, cell.val) ELSE inj_index
           anomaly_tag == IF /\ inj_index <= Len(mg_injections)
                             /\ Inside(mg_injections[idx], cell.val)
                          THEN mg_injections[idx].tag
                          ELSE 0
       IN IF cell.numeric
          THEN /\ inj_index' = idx
               /\ mg_out' = Append(mg_out, [row |-> mg_row + 1, label |-> anomaly_tag])
          ELSE UNCHANGED <<inj_index, mg_out>>
    /\ mg_row' = mg_row + 1
    /\ UNCHANGED <<run_vars, fc_call, json_vars, mg_pc, INJECTIONS_FILE, MONITOR_FILE, mg_injections>>

\* the end of the monitor file
MergeEnd ==
    /\ mg_pc = "rows"
    /\ mg_row = Len(MONITOR_FILE)
    /\ mg_pc' = "done"
    /\ UNCHANGED <<run_vars, fc_call, json_vars, INJECTIONS_FILE, MONITOR_FILE, mg_injections,
                   inj_index, mg_row, mg_out>>

(* --------------------------- fromJSON --------------------------------- *)
\* LoadInjector.fromJSON: the variant built for a 'type', "None" when the
\* type is not one of the listed tokens or the record has no type
TypeVariant(type) ==
    CASE type \in {"Memory", "RAM", "MemoryUsage", "Mem", "MemoryStress"} -> "MemoryStress"
      [] type \in {"Disk", "SSD", "DiskMemoryUsage", "DiskStress"} -> "DiskStress"
      [] type \in {"CPU", "Proc", "CPUUsage", "CPUStress"} -> "CPUStress"
      [] type \in {"Deadlock", "Dl", "Dead"} -> "Deadlock"
      [] type \in {"HTTP", "HTTPRead", "NetRead", "WebRead", "SiteRead"} -> "HTTPRead"
      [] type \in {"Redis", "RedisGet", "redis", "redisget", "Redis-Get"} -> "RedisStress"
      [] type \in {"RedisMem", "RedisSet", "redismem", "redisset", "Redis-Set", "Redis-Mem"}
            -> "RedisMemory"
      [] type \in {"StopProcess", "Process"} -> "ProcessHang"
      [] OTHER -> "None"

\* the types tried in a spec: one token of each variant, a token that is not
\* listed, and a record without type
TypeTokens ==
    {"Memory", "SSD", "CPUStress", "Dl", "HTTP", "redis", "Redis-Set", "Process",
     "Spin", "bogus", ""}

\* new_inj.is_valid(): no LoadInjector class defines is_valid, the call
\* raises AttributeError
IsValidRaises(variant) == TRUE

\* the 'duration_ms' a record may carry: none, or a value of its own
OwnDurations ==
    {[has |-> FALSE, val |-> 0]} \cup {[has |-> TRUE, val |-> d] : d \in {5, 20}}

\* a record that would keep the duration_ms it carries
KeepOwnDuration(own) == own

\* InjectionManager.py:172  job["duration_ms"] = self.inj_duration
OverrideDuration(own) == [has |-> TRUE, val |-> INJ_DURATION]

\* the fromJSON of a variant: job['duration_ms'] if 'duration_ms' in job
\* else 1000
BuiltDuration(d) == IF d.has THEN d.val ELSE DefaultDuration

\* InjectionManager.py:171-178, one record of the spec
JsonRecord ==
    /\ js_pc = "loop"
    /\ Len(json_injectors) + js_skipped < Len(json_object)
    /\ LET k == Len(json_injectors) + js_skipped + 1
           new_inj == TypeVariant(json_object[k])
       IN IF new_inj = "None"
          THEN /\ js_skipped' = js_skipped + 1
               /\ UNCHANGED <<js_pc, json_injectors, js_built>>
          ELSE /\ js_built' = Append(js_built,
                       [variant |-> new_inj,
                        duration_ms |-> BuiltDuration(OverrideDuration(json_duration[k]))])
               /\ IF IsValidRaises(new_inj)
                  THEN /\ js_pc' = "raised"
                       /\ UNCHANGED <<js_skipped, json_injectors>>
                  ELSE /\ json_injectors' = Append(json_injectors, new_inj)
                       /\ UNCHANGED <<js_pc, js_skipped>>
    /\ UNCHANGED <<merge_vars, fc_call, run_vars, json_object, json_duration,
                   js_injectors>>

\* InjectionManager.py:179-180
JsonEnd ==
    /\ js_pc = "loop"
    /\ Len(json_injectors) + js_skipped = Len(json_object)
    /\ js_injectors' = [set |-> TRUE, list |-> json_injectors]
    /\ js_pc' = "done"
    /\ UNCHANGED <<merge_vars, fc_call, run_vars, json_object, json_injectors,
                   js_skipped, json_duration, js_built>>

(* ------------------------- force_close ------------------------------- *)
\* the injectors whose inject_body is under way in the campaign process
Active == {i \in 1..NInj : inj_pc[i] = "running"}

\* InjectionManager.force_close_injections in process p raises: the
\* injector in available_inj has no method force_close (no LoadInjector
\* defines one), so the call at line 184 raises AttributeError
ForceCloseRaises(p) == available_inj[p] # 0

\* force_close_injections(), called by the process that called
\* start_campaign while an injector is active.  Nothing in it reaches the
\* campaign process or the injector.
ForceClose ==
    /\ entry = "injection_main"
    /\ main_pc \in {"tick", "flush"}
    /\ ~fc_call.called
    /\ Active # {}
    /\ fc_call' = [called |-> TRUE, at |-> now, active |-> Active,
                   raised |-> ForceCloseRaises("monitor")]
    /\ UNCHANGED <<merge_vars, json_vars, run_vars>>

(* ------------------------------ the clock ----------------------------- *)
\* the instants at which some thread runs next
Pending == {w \in {mon_wake, camp_wake} \cup {inj_wake[i] : i \in 1..NInj} : w # Never}

\* the selection loop of the campaign can end now
SelectReady ==
    /\ camp_pc = "select"
    /\ \E i \in 1..NInj : ~is_injector_running("campaign", i) /\ inj_pc[i] = "idle"

\* time passes until the next thread runs
Advance ==
    /\ Pending # {}
    /\ \A w \in Pending : w > now
    /\ ~SelectReady
    /\ now' = SetMin(Pending)
    /\ UNCHANGED <<aux_vars, cfg_vars, mon_vars, obj_vars, camp_vars, thr_vars,
                   inj_files, n_started, history, collected>>

(* -------------------------- specifications ---------------------------- *)
Next ==
    \/ StartCampaign
    \/ MonitorTick
    \/ MonitorFlush
    \/ MainCollect
    \/ CampaignBegin
    \/ CampaignTick
    \/ CampaignSelect
    \/ CampaignWake
    \/ CampaignFinish
    \/ InjectBegin
    \/ InjectEnd
    \/ InjectClose
    \/ Advance

Spec == Init /\ [][Next]_vars

\* a process or thread that can run does run, and time passes
FairRun == WF_vars(Next)

SpecLive == Init /\ [][Next]_vars /\ FairRun

NextMon ==
    \/ MonitorStart
    \/ MonitorTick
    \/ MonitorFlush
    \/ DebugTick
    \/ DebugFlush
    \/ Advance

SpecMon == InitMon /\ [][NextMon]_vars

\* InjectionManager.injectors set to a list of one injector by the caller
SingleLists == {<<"Spin">>, <<"MemoryStress">>, <<"ProcessHang">>}

\* a campaign over a list of one injector
InitOne ==
    /\ entry = "injection_main"
    /\ OBS_INTERVAL \in IntervalSet
    /\ N_OBS \in 1..MaxCycles
    /\ STORE_INTERVAL = MaxStore
    /\ INJ_DURATION \in DurationSet
    /\ INJ_RATE \in RateSet
    /\ INJ_COOLDOWN \in CooldownSet
    /\ injectors \in SingleLists
    /\ injectors_set = TRUE
    /\ call_file \in InjFiles
    /\ probes = <<"PythonProbe">>
    /\ disk_io = TRUE
    /\ fs_fails = FALSE
    /\ psutil_fails = FALSE
    /\ redis_up = TRUE /\ process_name = TRUE /\ target_alive = TRUE
    /\ InitState
    /\ MergeOff

SpecOne == InitOne /\ [][Next]_vars

\* injection_main.py with a campaign that injects, for the calls of
\* force_close_injections
InitFC ==
    /\ Init
    /\ INJ_RATE > 0
    /\ call_file # "omitted"

NextFC ==
    \/ StartCampaign
    \/ MonitorTick
    \/ MonitorFlush
    \/ MainCollect
    \/ CampaignBegin
    \/ CampaignTick
    \/ CampaignSelect
    \/ CampaignWake
    \/ CampaignFinish
    \/ InjectBegin
    \/ InjectEnd
    \/ InjectClose
    \/ ForceClose
    \/ Advance

SpecFC == InitFC /\ [][NextFC]_vars

\* no monitor and no campaign: the options of the other programs' runs
IdleOptions ==
    /\ entry = "none"
    /\ OBS_INTERVAL = 20 /\ N_OBS = 1 /\ STORE_INTERVAL = 1
    /\ INJ_RATE = 0 /\ INJ_COOLDOWN = 0
    /\ call_file = "omitted"
    /\ probes = <<"PythonProbe">>
    /\ disk_io = TRUE /\ fs_fails = FALSE /\ psutil_fails = FALSE

InitIdle ==
    /\ IdleOptions
    /\ INJ_DURATION = 20
    /\ injectors = << >>
    /\ injectors_set = TRUE
    /\ redis_up = TRUE /\ process_name = TRUE /\ target_alive = TRUE
    /\ InitState

\* an injector of any variant, built by its constructor on a machine with or
\* without a Redis server and a process of the name given
InitInj ==
    /\ IdleOptions
    /\ INJ_DURATION \in DurationSet
    /\ injectors \in {<<v>> : v \in Variants}
    /\ injectors_set = TRUE
    /\ redis_up \in BOOLEAN /\ process_name \in BOOLEAN /\ target_alive \in BOOLEAN
    /\ process_name => injectors[1] = "ProcessHang"
    /\ InitState
    /\ MergeOff

NextInj ==
    \/ InjectCall
    \/ InjectBegin
    \/ InjectEnd
    \/ InjectClose
    \/ Advance

SpecInj == InitInj /\ [][NextInj]_vars

\* the thread of an inject_body that can run does run, and time passes
FairInj ==
    /\ WF_vars(InjectBegin)
    /\ WF_vars(InjectEnd)
    /\ WF_vars(InjectClose)
    /\ WF_vars(Advance)

SpecInjLive == InitInj /\ [][NextInj]_vars /\ FairInj

\* InjectionManager.fromJSON on a spec that parses
InitJson ==
    /\ InitIdle
    /\ js_pc = "loop"
    /\ json_object \in SeqUpTo(TypeTokens, MaxRecords)
    /\ json_injectors = << >> /\ js_skipped = 0
    /\ json_duration \in [1..Len(json_object) -> OwnDurations]
    /\ js_built = << >>
    /\ js_injectors = [set |-> FALSE, list |-> << >>]
    /\ mg_pc = "off"
    /\ INJECTIONS_FILE = << >> /\ MONITOR_FILE = << >>
    /\ mg_injections = << >> /\ inj_index = 0 /\ mg_row = 0 /\ mg_out = << >>

NextJson ==
    \/ JsonRecord
    \/ JsonEnd

SpecJson == InitJson /\ [][NextJson]_vars

\* merge_data_injections.py with its two input files
InitMerge ==
    /\ InitIdle
    /\ mg_pc = "read"
    /\ INJECTIONS_FILE \in InjectionLogs
    /\ MONITOR_FILE \in SeqUpTo(TimeCells, MaxMonRows)
    /\ mg_injections = << >> /\ inj_index = 0 /\ mg_row = 0 /\ mg_out = << >>
    /\ js_pc = "off" /\ json_object = << >> /\ json_injectors = << >>
    /\ js_skipped = 0 /\ json_duration = << >> /\ js_built = << >>
    /\ js_injectors = [set |-> FALSE, list |-> << >>]

NextMerge ==
    \/ MergeRead
    \/ MergeRow
    \/ MergeEnd

SpecMerge == InitMerge /\ [][NextMerge]_vars

(* ----------------- store_observations, called directly ---------------- *)
\* the samples handed to store_observations: dicts with a timestamp, with or
\* without the fields of a probe
SinkSamples ==
    {[timestamp |-> 1, keys |-> <<"timestamp">>],
     [timestamp |-> 1, keys |-> <<"timestamp", "cpu_times.user">>],
     [timestamp |-> 2, keys |-> <<"timestamp", "cpu_times.user">>]}

\* obs_data of a call: a list of samples that is not empty
Batches == SeqUpTo(SinkSamples, MaxBatch) \ {<< >>}

\* store_observations(filename, obs_data) on the same file once more; the
\* samples handed over so far are kept in history, the sizes in appends
SinkAppend ==
    /\ entry = "none"
    /\ mg_pc = "off" /\ js_pc = "off"
    /\ Len(appends) < MaxCalls
    /\ \E data \in Batches :
          /\ mon_file' = store_observations(mon_file, data)
          /\ history' = history \o data
          /\ appends' = Append(appends, Len(data))
    /\ UNCHANGED <<aux_vars, now, cfg_vars, main_pc, mon_wake, obs_index, obs_data,
                   start_time, diag, obj_vars, camp_vars, thr_vars, inj_files,
                   n_started, collected>>

\* a file that does not exist, and no call made yet
InitSink ==
    /\ InitIdle
    /\ MergeOff

NextSink == SinkAppend

SpecSink == InitSink /\ [][NextSink]_vars

(* ------------------------------ claims -------------------------------- *)
\* the injectors of the campaign process whose running() is true
Running == {i \in 1..NInj : is_injector_running("campaign", i)}

\* every interval recorded in the campaign process, with its injector
AllIntervals ==
    UNION {{[inj |-> i, start |-> injected_interval["campaign"][i][k].start,
             end |-> injected_interval["campaign"][i][k].end] :
               k \in 1..Len(injected_interval["campaign"][i])} : i \in 1..NInj}

\* b is the injection that follows a
Consecutive(a, b) ==
    /\ a.start < b.start
    /\ ~\E c \in AllIntervals : a.start < c.start /\ c.start < b.start

\* the campaign process is alive: campaign_body has not returned, or one of
\* the threads it started has not
CampaignAlive ==
    \/ camp_pc \notin {"none", "done"}
    \/ \E i \in 1..NInj : inj_pc[i] # "idle"

\* C1: with a positive tick, duration and cooldown (and a positive
\* error_rate), two injectors of a campaign never report running() = true at
\* the same instant
C1_MutualExclusion ==
    (OBS_INTERVAL > 0 /\ INJ_DURATION > 0 /\ INJ_COOLDOWN > 0 /\ INJ_RATE > 0)
        => Cardinality(Running) <= 1

\* C2: with error_rate = 0 the campaign starts no injection and the
\* injection log holds its header only, whatever the random draws
C2_ZeroRateNoInjection ==
    INJ_RATE = 0 =>
        /\ n_started = 0
        /\ \A f \in InjFiles : inj_files[f].rows = << >>

\* C3: between two consecutive injections of a campaign (here: of a campaign
\* with a positive error_rate), next.start - prev.end >= cooldown_ms
C3_CooldownRespected ==
    INJ_RATE > 0 =>
        \A a \in AllIntervals, b \in AllIntervals :
            Consecutive(a, b) => b.start - a.end >= INJ_COOLDOWN

\* C4: with error_rate = 1, cooldown_ms = 0 and duration_ms = tick_ms, a
\* campaign of total_ticks ticks performs exactly total_ticks - 1 injections
C4_BackToBackCount ==
    (/\ INJ_RATE = 1000 /\ INJ_COOLDOWN = 0 /\ INJ_DURATION = OBS_INTERVAL
     /\ NInj > 0 /\ camp_pc = "done")
        => n_started = N_OBS - 1

\* C5: when collect() has returned in the process that called start(), the
\* campaign process has terminated
C5_CollectWaitsForCampaign ==
    collected.set => ~CampaignAlive

\* C6: collect() in the process that called start() returns one record,
\* tagged with the injector's name(), for every interval an injector
\* completed during the campaign
C6_CollectReturnsAllIntervals ==
    (collected.set /\ ~CampaignAlive) => collected.log = MergedLog("campaign")

\* C7: no file is written by both processes, and the injection log is
\* written by the campaign process only
C7_SingleWriterFiles ==
    \A f \in InjFiles : inj_files[f].writers \subseteq {"campaign"}

\* the data rows of the monitor file, in file order
DataRows == SelectSeq(mon_file, LAMBDA l : ~l.hdr)

\* C8: in the monitor file of every entry point the timestamps of
\* consecutive data rows are strictly increasing
C8_TimestampsIncreasing ==
    \A k \in 1..(Len(DataRows) - 1) : DataRows[k].ts < DataRows[k + 1].ts

\* C9: when a monitor run has ended the buffer is empty and the file holds
\* every sample collected during the run exactly once, in collection order
C9_AllSamplesOnce ==
    main_pc = "done" =>
        /\ obs_data = << >>
        /\ [k \in 1..Len(DataRows) |->
               [timestamp |-> DataRows[k].ts, keys |-> DataRows[k].cells]] = history

\* C10: the header row of the monitor file equals the key set of the first
\* data row, and no later data row has more fields than the header
C10_HeaderBoundsRows ==
    mon_file # << >> =>
        /\ mon_file[1].hdr
        /\ mon_file[1].cells = DataRows[1].cells
        /\ \A k \in 1..Len(DataRows) : Len(DataRows[k].cells) <= Len(mon_file[1].cells)

\* the set of the elements of a sequence
Range(q) == {q[k] : k \in 1..Len(q)}

\* C11: a row of a tick in which a probe of the header returned none (a row
\* whose keys are all keys of the header) has as many fields as the header,
\* every value under its own column and empty fields elsewhere
C11_MissingColumnsEmpty ==
    mon_file # << >> =>
        \A k \in 1..Len(DataRows) :
            Range(DataRows[k].cells) \subseteq Range(mon_file[1].cells) =>
                /\ Len(DataRows[k].cells) = Len(mon_file[1].cells)
                /\ \A j \in 1..Len(DataRows[k].cells) :
                      DataRows[k].cells[j] \in {mon_file[1].cells[j], ""}

\* C12: an append to the monitor file that fails with a filesystem error
\* does not end the monitor loop
C12_AppendFailureNotFatal == main_pc # "store_raised"

\* C13: an exception raised by the read of a probe does not leave
\* read_probes_data and does not end the monitor loop
C13_CollectNeverRaises == main_pc # "read_raised"

\* the strict loop was cut short by a deadline miss and the run has ended
C18_StrictMissEndsRun ==
    /\ entry = "monitor_main"
    /\ main_pc = "done"
    /\ diag # << >>
    /\ Len(history) < N_OBS

\* C18: in the strict loop the tick that prints the deadline-miss line is
\* the last one, no sample is read after it; the lenient loop goes on after
\* such a tick and ends by its time limit only
C18_DeadlineMiss ==
    /\ entry # "debug_main" =>
          (diag # << >> =>
              /\ Len(diag) = 1
              /\ Len(history) = diag[1]
              /\ main_pc # "tick")
    /\ entry = "debug_main" =>
          (main_pc \in {"dflush", "done"} =>
              now > start_time + N_OBS * OBS_INTERVAL)

\* C19: every append issued inside the monitor loop carries exactly
\* STORE_INTERVAL rows
C19_BatchSizeRows ==
    \A k \in 1..Len(appends) : appends[k] = STORE_INTERVAL

\* the monitor rows have numeric, increasing timestamps
MonitorIncreasing ==
    /\ \A k \in 1..Len(MONITOR_FILE) : MONITOR_FILE[k].numeric
    /\ \A k \in 1..(Len(MONITOR_FILE) - 1) : MONITOR_FILE[k].val < MONITOR_FILE[k + 1].val

\* no two intervals of the injection log share an instant
NonOverlapping ==
    \A a \in 1..Len(INJECTIONS_FILE), b \in 1..Len(INJECTIONS_FILE) :
        a # b => \/ INJECTIONS_FILE[a].end_time < INJECTIONS_FILE[b].start_time
                 \/ INJECTIONS_FILE[b].end_time < INJECTIONS_FILE[a].start_time

\* the label a row with timestamp t is to get: the name of the interval
\* that contains t, 0 ('normal') when there is none
ExpectedLabel(t) ==
    IF \E k \in 1..Len(INJECTIONS_FILE) :
          INJECTIONS_FILE[k].start_time <= t /\ t <= INJECTIONS_FILE[k].end_time
    THEN CHOOSE k \in 1..Len(INJECTIONS_FILE) :
            INJECTIONS_FILE[k].start_time <= t /\ t <= INJECTIONS_FILE[k].end_time
    ELSE 0

\* a merge has ended in which the second row falls on the end of the interval
\* that is last in time and first in the file
C14_BoundaryRowLabelled ==
    /\ mg_pc = "done"
    /\ MonitorIncreasing /\ NonOverlapping
    /\ Len(INJECTIONS_FILE) >= 2 /\ Len(MONITOR_FILE) = 2
    /\ INJECTIONS_FILE[1].start_time > INJECTIONS_FILE[2].end_time
    /\ INJECTIONS_FILE[1].start_time < INJECTIONS_FILE[1].end_time
    /\ MONITOR_FILE[2].val = INJECTIONS_FILE[1].end_time
    /\ mg_out[2].label = 1

\* C14: for monitor rows with increasing timestamps and pairwise
\* non-overlapping intervals in any file order, every monitor row is written
\* with the name of the interval that contains its timestamp, bounds
\* included, or with 'normal' when no interval contains it
C14_MergeLabels ==
    (mg_pc = "done" /\ MonitorIncreasing /\ NonOverlapping) =>
        /\ Len(mg_out) = Len(MONITOR_FILE)
        /\ \A k \in 1..Len(mg_out) :
              /\ mg_out[k].row = k
              /\ mg_out[k].label = ExpectedLabel(MONITOR_FILE[k].val)

\* no inject_body is under way: every activation made so far is over
NoneUnderWay == \A i \in 1..NInj : inj_pc[i] \in {"idle", "raised"}

\* C15: once the activations made on an injector are over, its interval list
\* has one entry for each of them, and none for Process-hang whose target is
\* absent
C15_OneIntervalPerActivation ==
    (entry = "none" /\ NInj = 1 /\ NoneUnderWay) =>
        Len(injected_interval["campaign"][1]) =
            IF injectors[1] = "ProcessHang" /\ ~(process_name /\ target_alive)
            THEN 0 ELSE n_started

\* the time allowed for teardown: 100 ms for Deadlock and HTTP, 50 ms for
\* the other variants
Delta(variant) == IF variant \in {"Deadlock", "HTTPRead"} THEN 100 ELSE 50

\* C16: every recorded interval has start <= end <= start + duration_ms +
\* delta, in milliseconds, Process-hang included
C16_IntervalWithinDuration ==
    \A a \in AllIntervals :
        /\ a.start <= a.end
        /\ a.end <= a.start + INJ_DURATION + Delta(injectors[a.inj])

\* C17: force_close() on the InjectionManager while an injector is active
\* completes without error and leaves that injector not running, with its
\* interval appended
C17_ForceCloseStops ==
    (fc_call.called /\ fc_call.at = now) =>
        /\ ~fc_call.raised
        /\ \A i \in fc_call.active :
              /\ ~is_injector_running("campaign", i)
              /\ inj_pc[i] # "running"

RECURSIVE SpecVariants(_, _)
\* the variants named by the first n records of the spec, in record order,
\* the records without a recognized type left out
SpecVariants(q, n) ==
    IF n = 0 THEN << >>
    ELSE IF TypeVariant(q[n]) = "None" THEN SpecVariants(q, n - 1)
         ELSE Append(SpecVariants(q, n - 1), TypeVariant(q[n]))

\* C20: loading a spec ends without error and leaves the manager with one
\* injector for every record of a recognized type, in record order and of
\* the variant the type names
C20_LoadKeepsVariants ==
    /\ js_pc # "raised"
    /\ js_pc = "done" =>
          /\ js_injectors.set
          /\ js_injectors.list = SpecVariants(json_object, Len(json_object))

\* an injector was built from a record that carries a duration_ms of its
\* own, other than the campaign's
C21_RecordWithOwnDuration ==
    /\ js_built # << >>
    /\ \E k \in 1..Len(json_object) :
          /\ TypeVariant(json_object[k]) = js_built[1].variant
          /\ json_duration[k].has
          /\ json_duration[k].val # INJ_DURATION
          /\ \A j \in 1..(k - 1) : TypeVariant(json_object[j]) = "None"

\* C21: every injector built from a declarative spec has the campaign's
\* duration_ms, whatever duration_ms its record carries
C21_GlobalDuration ==
    \A k \in 1..Len(js_built) : js_built[k].duration_ms = INJ_DURATION

\* C22: an activation of a Process-hang injector whose target is absent
\* records no interval and ends duration_ms milliseconds after its start
\* (here: no later than the largest overrun after that)
C22_AbsentTargetSleepsDuration ==
    (entry = "none" /\ NInj = 1 /\ injectors[1] = "ProcessHang" /\ ~process_name) =>
        /\ injected_interval["campaign"][1] = << >>
        /\ inj_pc[1] = "running" => now <= inj_start[1] + INJ_DURATION + MaxOverrun

\* a run of one tick with error_rate = 1 and injectors has ended, monitor
\* and campaign
C23_OneTickRunEnded ==
    /\ N_OBS = 1 /\ INJ_RATE = 1000 /\ NInj > 0
    /\ main_pc = "done" /\ camp_pc = "done"
    /\ Len(DataRows) = 1

\* C23: with total_ticks = 1 the campaign starts no injection and the
\* monitor, once its run has ended, has written exactly one data row
C23_SingleTick ==
    N_OBS = 1 =>
        /\ n_started = 0
        /\ main_pc = "done" => Len(DataRows) = 1 /\ Len(history) = 1

\* an activation of the Redis SET injector has ended and recorded its
\* interval
C24_SetActivationEnded ==
    /\ entry = "none" /\ NInj = 1 /\ injectors[1] = "RedisMemory"
    /\ n_started = MaxActivations
    /\ Len(injected_interval["campaign"][1]) = MaxActivations
    /\ ~is_injector_running("campaign", 1)

\* C24: whenever the Redis SET injector is not running, the store holds no
\* key with its prefix
C24_KeysDeleted ==
    (entry = "none" /\ NInj = 1 /\ injectors[1] = "RedisMemory") =>
        (~is_injector_running("campaign", 1) => redis_keys = 0)

\* C25: whenever the campaign is in its selection loop, some injector is
\* not running, so the loop can end at once
C25_SelectionNeverWaits ==
    camp_pc = "select" => \E i \in 1..NInj : ~is_injector_running("campaign", i)

\* C26: an injector whose inject() has returned and whose body has not yet
\* appended its interval reports that it is running
C26_RunningWhileInFlight ==
    \A i \in 1..NInj :
        inj_pc[i] \in {"launched", "running"} => is_injector_running("campaign", i)

\* the variants whose body waits on an Event before it terminates its pool
EventWaiters == {"CPUStress", "DiskStress", "RedisStress"}

\* C27: CPU stress, Disk stress and GET stress close no interval earlier
\* than duration_ms after its start
C27_PoolKeptForDuration ==
    \A i \in 1..NInj :
        injectors[i] \in EventWaiters =>
            \A k \in 1..Len(injected_interval["campaign"][i]) :
                LET iv == injected_interval["campaign"][i][k]
                IN  iv.end >= iv.start + INJ_DURATION

\* C28: the Deadlock body leaves its wait early enough for the interval it
\* records to be no longer than duration_ms
C28_DeadlockWithinDuration ==
    \A i \in 1..NInj :
        injectors[i] = "Deadlock" =>
            \A k \in 1..Len(injected_interval["campaign"][i]) :
                LET iv == injected_interval["campaign"][i][k]
                IN  iv.end <= iv.start + INJ_DURATION

\* C29: the timer of the campaign loop is never negative
C29_TimerNeverNegative == inj_timer >= 0

\* C30: at the start of a tick whose timer has run out, duration and cooldown
\* both over, the slot of the selected injector is clear
C30_SlotClearedAfterDuration ==
    (camp_pc = "tick" /\ inj_timer <= 0) => available_inj["campaign"] = 0

\* the nominal end of a campaign that began at 0
NominalEnd == N_OBS * OBS_INTERVAL

\* the starts of the activations that began, under way or ended
Starts ==
    {inj_start[i] : i \in {j \in 1..NInj : inj_pc[j] = "running"}}
        \cup {iv.start : iv \in AllIntervals}

\* C31: the campaign starts an injection at tick cycle_id only if
\* (N_OBS - cycle_id - 1) * OBS_INTERVAL > INJ_DURATION, so none starts in the
\* last tick, and start + INJ_DURATION of every activation is before the
\* nominal end of the campaign
C31_FitBeforeStart ==
    /\ [][n_started' > n_started =>
            /\ (N_OBS - cycle_id - 1) * OBS_INTERVAL > INJ_DURATION
            /\ cycle_id < N_OBS - 1]_vars
    /\ [](\A t \in Starts : t + INJ_DURATION < NominalEnd)

\* a run in which MemInfoProbe gave nothing in the first tick and gave its
\* fields in the second
C32_ReadAgainAfterNone ==
    /\ probes = <<"PythonProbe", "MemInfoProbe">>
    /\ Len(history) >= 2
    /\ "meminfo.MemTotal" \notin Range(history[1].keys)
    /\ "meminfo.MemTotal" \in Range(history[2].keys)

\* C32: no step of a run changes the list of active probes, so a probe that
\* returned None in one tick is read again in the next
C32_ProbeSetFixed == [][probes' = probes]_vars

\* a file written by two calls, the second of them with two rows
C33_TwoCallsMade ==
    /\ entry = "none"
    /\ Len(appends) = 2
    /\ appends[2] = 2

\* C33: after any calls of store_observations on a file that did not exist,
\* the file has one header line, its first line, and then the rows of the
\* calls in call order and, within a call, in input order
C33_OneHeaderRowsInOrder ==
    (entry = "none" /\ Len(appends) > 0) =>
        /\ mon_file[1].hdr
        /\ mon_file[1].cells = history[1].keys
        /\ \A k \in 2..Len(mon_file) : ~mon_file[k].hdr
        /\ Len(mon_file) = 1 + Len(history)
        /\ \A k \in 1..Len(history) :
              /\ mon_file[k + 1].ts = history[k].timestamp
              /\ mon_file[k + 1].cells = history[k].keys

\* C34: the log the campaign writes at its end has one row for every
\* injection the campaign started
C34_LogHasEveryInjection ==
    (camp_pc = "done" /\ call_file \in InjFiles) =>
        /\ Len(injections["campaign"].log) = n_started
        /\ Len(inj_files[call_file].rows) >= n_started

\* C35: an injector that is running is not running at some later time
C35_ActivationEnds ==
    (NInj = 1 /\ is_injector_running("campaign", 1))
        ~> (NInj = 1 /\ ~is_injector_running("campaign", 1))

\* C36: a campaign body that has begun ends with the injection log written,
\* after N_OBS iterations of its loop when it has injectors
C36_CampaignTerminates ==
    /\ [](camp_pc \in {"finish", "done"} /\ has_injectors => cycle_id = N_OBS)
    /\ (camp_pc = "begin") ~> (camp_pc = "done" /\ inj_files[call_file].exists)

C38_NoRowDropped ==
    mg_pc = "done" =>
        /\ Len(mg_out) = Len(MONITOR_FILE)
        /\ \A k \in 1..Len(mg_out) : mg_out[k].row = k
====
